---- MODULE Spec2Model ----
(***************************************************************************)
(* Model of the FMCG data simulator: the incremental load guard            *)
(* (FMCG/helpers.py), the id allocator (FMCG/id_generation.py), the sales  *)
(* synthesis loop (FMCG/generators/dimensional.py) and the delivery-status *)
(* reconciliation queries (FMCG/generators/bigquery_updates.py).           *)
(*                                                                         *)
(* Each component has its own specification (SpecGuard, SpecAlloc, ...).   *)
(* A specification moves only the variables of its component; the others   *)
(* stay at their initial value.                                            *)
(***************************************************************************)
EXTENDS Integers, Sequences, FiniteSets, TLC

\* ------------------------------------------------------------------ bounds
\* identifiers a batch or the destination may hold
MaxId == 2
\* copies of one id inside one candidate batch
MaxDup == 2
\* rows of one candidate batch
MaxBatch == 2
\* calls of append_df_bq_safe in one behaviour
MaxCalls == 2
\* LIMIT of the existence query (helpers.py:119 reads LIMIT 1000); scaled to
\* the id universe of the model so that a batch can hold more ids than the
\* query returns
QueryLimit == 1
\* highest value a sequence counter reaches
MaxSeq == 3
\* allocator operations in one behaviour
MaxOps == 4
\* bits of the 12-hex-digit MD5 prefix (id_generation.py:42 keeps 48 bits)
\* and of max_safe_int (id_generation.py:46 is 2^63 - 1), scaled together so
\* that the prefix stays narrower than the safe range as in the source
HashBits12 == 1
SafeBits == 2
\* bits of the 16-hex-digit MD5 prefix (id_generation.py:96 keeps 64 bits),
\* at the model's width: one more than SafeBits, as 64 is one more than 63
HashBits16 == 3
\* longest requested date range handed to the sales generators, as
\* end_date - start_date
MaxSpan == 2

\* sale keys of the sales table
MaxSales == 1

\* last day of a schedule of daily runs, counted from its first day
MaxDay == 7

\* records delivery_status_updates can hold
MaxUpdates == 1

\* runs of main() in a row
MaxRuns == 2

\* distinct argument tuples generate_unique_sale_key is called with
MaxKeys == 1

VARIABLES
    destExists,     \* helpers: the destination table exists in the warehouse
    dest,           \* helpers: rows of the destination, as id -> number of rows
    prev,           \* helpers: record of the call before the last one (or NoCall)
    cur,            \* helpers: record of the last call of append_df_bq_safe
    ncalls,         \* helpers: calls made so far
    cleanRun,       \* helpers: no call so far repeated an id inside its batch
                    \*          or lost its existence query to an error
    sequence_counters,  \* id_generation: ID_GENERATOR_STATE['sequence_counters']
    md5,            \* id_generation: the MD5 prefixes computed so far, by input
    issued,         \* id_generation: the calls made so far, with what they returned
    args,           \* dimensional: arguments of the running sales generator
    today,          \* the day the run executes (date.today())
    gfs,            \* dimensional: locals of the running sales generator
    sales_table,    \* warehouse: fact_sales, as sale key -> row (or NoSale)
    updates_table,  \* warehouse: the records of delivery_status_updates
    run,            \* main: flags, position and outcome of the current run
    loaded          \* warehouse: loads received so far, by table other than
                    \*            fact_sales

guardVars == <<destExists, dest, prev, cur, ncalls, cleanRun>>

allocVars == <<sequence_counters, md5, issued>>

salesVars == <<args, today, gfs>>

reconVars == <<sales_table, updates_table>>

mainVars == <<run, loaded>>

vars == <<destExists, dest, prev, cur, ncalls, cleanRun,
          sequence_counters, md5, issued, args, today, gfs,
          sales_table, updates_table, run, loaded>>

\* ------------------------------------------------------------ load guard
Ids == 1..MaxId

Min(a, b) == IF a <= b THEN a ELSE b

RECURSIVE SumOver(_, _)
SumOver(f, S) ==
    IF S = {} THEN 0
    ELSE LET x == CHOOSE y \in S : TRUE IN f[x] + SumOver(f, S \ {x})

\* a DataFrame seen through its id column: id -> number of rows with that id
EmptyDf == [i \in Ids |-> 0]

\* len(df)
Rows(df) == SumOver(df, Ids)

\* df[id_column].unique()
IdsOf(df) == {i \in Ids : df[i] > 0}

Batches == {df \in [Ids -> 0..MaxDup] : Rows(df) <= MaxBatch}

\* SELECT DISTINCT id FROM table WHERE id IN (ids_to_check) LIMIT n:
\* any n of the matching ids when more than n match
ExistingIdsQuery(table, ids_to_check) ==
    LET matching == {i \in ids_to_check : table[i] > 0}
        n == Min(Cardinality(matching), QueryLimit)
    IN  {S \in SUBSET matching : Cardinality(S) = n}

\* df[~df[id_column].isin(existing_ids_set)]
FilterOut(df, existing_ids_set) ==
    [i \in Ids |-> IF i \in existing_ids_set THEN 0 ELSE df[i]]

\* load_table_from_dataframe(df, table_id) with WRITE_APPEND
LoadAppend(table, df) == [i \in Ids |-> table[i] + df[i]]

NoCall == [kind |-> "none"]

\* what one call did: query is "skipped" (the call ended before the
\* existence query), "failed" (the query raised) or "answered"; load is
\* "skipped" (no load job was started), "failed" or "done"
CallRecord(df, before, query, load, persisted, outcome, ret) ==
    [kind |-> "call", df |-> df, before |-> before, query |-> query,
     load |-> load, persisted |-> persisted, outcome |-> outcome, ret |-> ret]

\* mutant: the batch is dropped when the existence query fails
Kept_DroppedOnQueryFailure(df, queryFailed, existing) ==
    IF queryFailed THEN EmptyDf ELSE FilterOut(df, existing)

\* lines 105-144: the rows left to load, the batch without the ids the query
\* returned, or the whole batch when the query raised
Kept(df, queryFailed, existing) ==
    IF queryFailed THEN df ELSE FilterOut(df, existing)

\* mutant: the failure of the load is logged and the call returns
OnLoadFailure_Swallowed == "returned"

\* lines 154-156: logger.error(...); raise
OnLoadFailure == "raised"

\* one call of append_df_bq_safe(client, df, table_id, id_column).
\*   idColumnPresent: id_column is a column of df
\*   queryError:      the existence query fails for a reason other than a
\*                    missing table
\*   existing:        the ids the existence query returns
\*   loadError:       the load job fails
\*   createOk:        create_table succeeds (empty-batch path)
append_df_bq_safe(df, idColumnPresent, queryError, existing, loadError, createOk) ==
    /\ ncalls < MaxCalls
    /\ ncalls' = ncalls + 1
    /\ prev' = cur
    /\ UNCHANGED <<allocVars, salesVars, reconVars>>
    /\ IF Rows(df) = 0
       THEN \* lines 67-87: nothing to append, make sure the table exists
            /\ destExists' = (destExists \/ createOk)
            /\ dest' = dest
            /\ cur' = CallRecord(df, dest, "skipped", "skipped", EmptyDf,
                                 "returned", 0)
            /\ cleanRun' = cleanRun
       ELSE IF ~idColumnPresent
       THEN \* lines 98-101: ValueError
            /\ UNCHANGED <<destExists, dest, cleanRun>>
            /\ cur' = CallRecord(df, dest, "skipped", "skipped", EmptyDf,
                                 "raised", 0)
       ELSE LET queryFailed == ~destExists \/ queryError
                \* lines 105-144: filter when the query answered, keep the
                \* whole batch when it raised
                kept == Kept(df, queryFailed, existing)
                query == IF queryFailed THEN "failed" ELSE "answered"
                clean == /\ cleanRun
                         /\ ~queryError
                         /\ \A i \in Ids : df[i] <= 1
            IN  /\ cleanRun' = clean
                /\ IF Rows(kept) = 0
                   THEN \* lines 133-135: all records were duplicates
                        /\ UNCHANGED <<destExists, dest>>
                        /\ cur' = CallRecord(df, dest, query, "skipped",
                                             EmptyDf, "returned", 0)
                   ELSE IF loadError
                   THEN \* lines 154-156: the load failed, re-raised
                        /\ UNCHANGED <<destExists, dest>>
                        /\ cur' = CallRecord(df, dest, query, "failed",
                                             EmptyDf, OnLoadFailure, 0)
                   ELSE \* lines 147-153
                        /\ destExists' = TRUE
                        /\ dest' = LoadAppend(dest, kept)
                        /\ cur' = CallRecord(df, dest, query, "done", kept,
                                             "returned", Rows(kept))

AppendEmpty ==
    /\ ncalls < MaxCalls
    /\ \E createOk \in BOOLEAN :
          append_df_bq_safe(EmptyDf, TRUE, FALSE, {}, FALSE, createOk)
    /\ UNCHANGED mainVars

AppendMissingIdColumn ==
    /\ ncalls < MaxCalls
    /\ \E df \in Batches \ {EmptyDf} :
          append_df_bq_safe(df, FALSE, FALSE, {}, FALSE, FALSE)
    /\ UNCHANGED mainVars

AppendQueryFailed ==
    /\ ncalls < MaxCalls
    /\ \E df \in Batches \ {EmptyDf}, queryError, loadError \in BOOLEAN :
          /\ ~destExists \/ queryError
          /\ append_df_bq_safe(df, TRUE, queryError, {}, loadError, FALSE)
    /\ UNCHANGED mainVars

AppendFiltered ==
    /\ ncalls < MaxCalls
    /\ \E df \in Batches \ {EmptyDf}, loadError \in BOOLEAN :
          /\ destExists
          /\ \E existing \in ExistingIdsQuery(dest, IdsOf(df)) :
                append_df_bq_safe(df, TRUE, FALSE, existing, loadError, FALSE)
    /\ UNCHANGED mainVars

GuardIdle ==
    /\ dest = EmptyDf
    /\ prev = NoCall
    /\ cur = NoCall
    /\ ncalls = 0
    /\ cleanRun = TRUE

AllocIdle ==
    /\ sequence_counters = << >>
    /\ md5 = << >>
    /\ issued = << >>

NoArgs == [fn |-> "none"]

NoLocals == [pc |-> "none"]

SalesIdle ==
    /\ args = NoArgs
    /\ today = 0
    /\ gfs = NoLocals

SaleKeys == 1..MaxSales

\* no row of the sales table has this key
NoSale == [sale_date |-> {}]

ReconIdle ==
    /\ sales_table = [k \in SaleKeys |-> NoSale]
    /\ updates_table = {}

\* main() builds its twelve dimension tables with twelve copies of one
\* statement, in a fixed order; the first and the one sales depend on stand
\* for them
DimOrder == <<"dim_locations", "dim_products">>

\* the fact tables main() loads after fact_sales
FactOrder == <<"fact_operating_costs", "fact_inventory">>

LoadedTables == {DimOrder[i] : i \in 1..Len(DimOrder)}
                   \cup {FactOrder[i] : i \in 1..Len(FactOrder)}

\* one run of main(): n counts the runs started; i is the position in
\* DimOrder or FactOrder; sales is the batch handed to the load guard; append
\* is how that call ended ("none" before it); after holds the steps executed
\* after it; exit is how the run ended ("none" while it runs); range and
\* target are the dates and the amount asked of generate_fact_sales ("none"
\* before the call); faults holds the failures of the warehouse met so far:
\* "check" (a count query of table_has_data on a table with rows), "query"
\* (a read of the dimensions), "readsessions.create", "load" (a load job
\* of append_df_bq), "drop" (delete_table)
RunRecord(pc, n, is_scheduled, is_last_day, i, sales, append, after, exit) ==
    [pc |-> pc, n |-> n, is_scheduled |-> is_scheduled,
     is_last_day |-> is_last_day, i |-> i, sales |-> sales,
     append |-> append, after |-> after, exit |-> exit,
     range |-> "none", target |-> "none", faults |-> {}]

NoRun == RunRecord("none", 0, FALSE, FALSE, 1, EmptyDf, "none", {}, "none")

MainIdle ==
    /\ run = NoRun
    /\ loaded = [t \in LoadedTables |-> 0]

InitGuard ==
    /\ destExists \in BOOLEAN
    /\ GuardIdle
    /\ AllocIdle
    /\ SalesIdle
    /\ ReconIdle
    /\ MainIdle

NextGuard ==
    \/ AppendEmpty
    \/ AppendMissingIdColumn
    \/ AppendQueryFailed
    \/ AppendFiltered

SpecGuard == InitGuard /\ [][NextGuard]_vars

\* ---------------------------------------------------- load guard: claims
\* the ids of df that the destination held before the call
PresentBefore(c) == {i \in IdsOf(c.df) : c.before[i] > 0}

\* C1: idempotence of the load guard: a call that repeats the batch of the
\* call before it, against a destination that holds every id of that batch
\* and with an existence query that answers, persists nothing and returns 0
C1_SecondCallPersistsNothing ==
    ( /\ prev # NoCall
      /\ cur.df = prev.df
      /\ cur.query = "answered"
      /\ PresentBefore(cur) = IdsOf(cur.df) )
    => ( /\ cur.outcome = "returned"
         /\ cur.ret = 0
         /\ cur.persisted = EmptyDf
         /\ dest = cur.before )

\* C2: no identifier is stored in the destination more than once, after any
\* sequence of calls whose batches repeat no id and whose existence queries
\* were not lost to an error
C2_NoIdStoredTwice ==
    cleanRun => \A i \in Ids : dest[i] <= 1

\* C3: when the existence query answers, the call persists exactly the
\* candidate rows whose id the destination did not hold, and returns the
\* number of rows it persisted
C3_PersistsExactlyTheNewRows ==
    ( /\ cur # NoCall
      /\ cur.outcome = "returned"
      /\ cur.query = "answered" )
    => ( /\ cur.persisted = FilterOut(cur.df, PresentBefore(cur))
         /\ dest = LoadAppend(cur.before, cur.persisted)
         /\ cur.ret = Rows(cur.persisted) )

\* C16: a call with an empty candidate set persists nothing and returns 0,
\* and the destination table exists when it returns.  Violated: when the
\* table is missing and creating it fails, the failure is logged and the
\* call returns 0 with the table still missing.
C16_EmptyBatchEnsuresTable ==
    (cur # NoCall /\ Rows(cur.df) = 0)
        => /\ cur.outcome = "returned"
           /\ cur.ret = 0
           /\ cur.persisted = EmptyDf
           /\ dest = cur.before
           /\ destExists

\* C17: when the existence query fails (the destination is missing, or any
\* other error) the call does not abort: the load is started with the whole
\* batch, and unless the load itself fails (C18) the whole batch is
\* persisted and the batch size is returned.
C17_QueryFailureLoadsWholeBatch ==
    (cur # NoCall /\ cur.query = "failed")
        => /\ cur.load # "skipped"
           /\ cur.load = "done"
                 => /\ cur.outcome = "returned"
                    /\ cur.persisted = cur.df
                    /\ cur.ret = Rows(cur.df)
                    /\ dest = LoadAppend(cur.before, cur.df)
                    /\ destExists

\* a call whose query failed against a destination that already held an id
\* of the batch, and which loaded the batch all the same
C17_Witness ==
    /\ cur # NoCall
    /\ cur.query = "failed"
    /\ cur.load = "done"
    /\ PresentBefore(cur) # {}
    /\ cur.ret = Rows(cur.df)

\* C18: when the load fails the failure reaches the caller: the call raises,
\* returns no count, and nothing of the batch is in the destination.
C18_LoadFailurePropagates ==
    (cur # NoCall /\ cur.load = "failed")
        => /\ cur.outcome = "raised"
           /\ cur.persisted = EmptyDf
           /\ dest = cur.before

\* a call whose load failed after its existence query had answered and left
\* rows to load
C18_Witness ==
    /\ cur # NoCall
    /\ cur.load = "failed"
    /\ cur.query = "answered"
    /\ cur.outcome = "raised"

\* ---------------------------------------------------------- id allocator
Entities == {"sale", "product"}

Prefixes == {<<"P">>, <<"E", "M", "P">>}

Paddings == {1, 3}

\* max_safe_int, the largest signed 64-bit integer, at the model's width
max_safe_int == 2^SafeBits - 1

\* values of int(hexdigest()[:12], 16), at the model's width
HashPrefixes12 == 0..(2^HashBits12 - 1)

\* values of int(hexdigest()[:16], 16), at the model's width
HashPrefixes16 == 0..(2^HashBits16 - 1)

\* the strings generate_unique_sale_key is called with: one value of
\* (sale_date, product_key, employee_key, retailer_key, sequence_num,
\* timestamp_ms) each
KeyComponents == 1..MaxKeys

DigitChars == <<"0", "1", "2", "3", "4", "5", "6", "7", "8", "9">>

\* str(n) for n >= 0, as a sequence of characters
RECURSIVE Digits(_)
Digits(n) ==
    IF n < 10 THEN <<DigitChars[n + 1]>>
    ELSE Digits(n \div 10) \o <<DigitChars[(n % 10) + 1]>>

RECURSIVE Zeros(_)
Zeros(k) == IF k <= 0 THEN << >> ELSE <<"0">> \o Zeros(k - 1)

\* f"{prefix}{unique_num:0{padding}d}"
FormatReadable(prefix, unique_num, padding) ==
    prefix \o Zeros(padding - Len(Digits(unique_num))) \o Digits(unique_num)

\* a returned value: an int, or a str as its characters
IntValue(n) == [kind |-> "int", num |-> n, str |-> << >>]
StrValue(chars) == [kind |-> "str", num |-> 0, str |-> chars]

\* the counter of an entity type, 0 when the dictionary has no entry
CounterOf(counters, entity_type) ==
    IF entity_type \in DOMAIN counters THEN counters[entity_type] ELSE 0

\* mutant: the counter is read but not incremented
NextSequence_NoIncrement(counters, entity_type) ==
    CounterOf(counters, entity_type)

\* lines 30-34: initialise to 0 when missing, then += 1
NextSequence(counters, entity_type) == CounterOf(counters, entity_type) + 1

\* mutant: the incremented value is not stored back in the dictionary
Bump_NotStored(counters, entity_type) ==
    [e \in DOMAIN counters \cup {entity_type} |->
        IF e = entity_type THEN CounterOf(counters, entity_type)
        ELSE counters[e]]

Bump(counters, entity_type) ==
    [e \in DOMAIN counters \cup {entity_type} |->
        IF e = entity_type THEN NextSequence(counters, entity_type)
        ELSE counters[e]]

\* mutant: the value is returned as hashed
FitSafeInt_NoReduction(unique_id) == unique_id

\* lines 46-49 and 98-101: reduce modulo max_safe_int when above it
FitSafeInt(unique_id) ==
    IF unique_id > max_safe_int THEN unique_id % max_safe_int ELSE unique_id

IdEvent(entity_type, strategy, sequence, value, prefix, padding) ==
    [op |-> "id", entity |-> entity_type, strategy |-> strategy,
     sequence |-> sequence, value |-> value, prefix |-> prefix,
     padding |-> padding]

ResetEvent(entity_type) ==
    [op |-> "reset", entity |-> entity_type, strategy |-> "none",
     sequence |-> 0, value |-> IntValue(0), prefix |-> << >>, padding |-> 0]

AllocStep ==
    /\ Len(issued) < MaxOps
    /\ UNCHANGED <<guardVars, salesVars, reconVars, mainVars>>

\* generate_unique_id(entity_type, use_timestamp=True): the id is the MD5
\* prefix of session_id, entity_type, timestamp_base + sequence and sequence;
\* session_id and timestamp_base do not change within a process, so the
\* hashed string is a function of (entity_type, sequence)
generate_unique_id_hash(entity_type, unique_hash) ==
    LET sequence == NextSequence(sequence_counters, entity_type)
        unique_str == <<entity_type, sequence>>
    IN  /\ AllocStep
        /\ sequence <= MaxSeq
        /\ unique_str \in DOMAIN md5 => unique_hash = md5[unique_str]
        /\ md5' = [k \in DOMAIN md5 \cup {unique_str} |->
                      IF k = unique_str THEN unique_hash ELSE md5[k]]
        /\ sequence_counters' = Bump(sequence_counters, entity_type)
        /\ issued' = Append(issued,
               IdEvent(entity_type, "hash", sequence,
                       IntValue(FitSafeInt(unique_hash)), << >>, 0))

\* generate_unique_sale_key(sale_date, product_key, employee_key,
\* retailer_key, sequence_num, timestamp_ms): the MD5 prefix of the joined
\* arguments, reduced to the signed 64-bit range; no counter is touched
generate_unique_sale_key(key_components, key_hash) ==
    LET hashed == <<"sale_key", key_components>>
    IN  /\ AllocStep
        /\ hashed \in DOMAIN md5 => key_hash = md5[hashed]
        /\ md5' = [k \in DOMAIN md5 \cup {hashed} |->
                      IF k = hashed THEN key_hash ELSE md5[k]]
        /\ issued' = Append(issued,
               IdEvent("sale_key", "sale_key", key_components,
                       IntValue(FitSafeInt(key_hash)), << >>, 0))
        /\ UNCHANGED sequence_counters

\* generate_unique_id(entity_type, use_timestamp=False)
generate_unique_id_sequence(entity_type) ==
    LET sequence == NextSequence(sequence_counters, entity_type)
    IN  /\ AllocStep
        /\ sequence <= MaxSeq
        /\ sequence_counters' = Bump(sequence_counters, entity_type)
        /\ issued' = Append(issued,
               IdEvent(entity_type, "sequence", sequence,
                       IntValue(sequence), << >>, 0))
        /\ UNCHANGED md5

\* generate_readable_id(prefix, entity_type, padding)
generate_readable_id(prefix, entity_type, padding) ==
    LET unique_num == NextSequence(sequence_counters, entity_type)
    IN  /\ AllocStep
        /\ unique_num <= MaxSeq
        /\ sequence_counters' = Bump(sequence_counters, entity_type)
        /\ issued' = Append(issued,
               IdEvent(entity_type, "readable", unique_num,
                       StrValue(FormatReadable(prefix, unique_num, padding)),
                       prefix, padding))
        /\ UNCHANGED md5

\* reset_id_counters(entity_type): pop the entry of one entity type
reset_id_counters_one(entity_type) ==
    /\ AllocStep
    /\ sequence_counters' =
           [e \in DOMAIN sequence_counters \ {entity_type} |->
               sequence_counters[e]]
    /\ issued' = Append(issued, ResetEvent(entity_type))
    /\ UNCHANGED md5

\* reset_id_counters(): clear the dictionary
reset_id_counters_all ==
    /\ AllocStep
    /\ sequence_counters' = << >>
    /\ issued' = Append(issued, ResetEvent("*"))
    /\ UNCHANGED md5

GenerateUniqueIdHash ==
    \E e \in Entities, h \in HashPrefixes12 : generate_unique_id_hash(e, h)

GenerateUniqueSaleKey ==
    \E c \in KeyComponents, h \in HashPrefixes16 :
        generate_unique_sale_key(c, h)

GenerateUniqueIdSequence ==
    \E e \in Entities : generate_unique_id_sequence(e)

GenerateReadableId ==
    \E p \in Prefixes, e \in Entities, w \in Paddings :
        generate_readable_id(p, e, w)

ResetOne == \E e \in Entities : reset_id_counters_one(e)

ResetAll == reset_id_counters_all

InitAlloc ==
    /\ destExists = FALSE
    /\ GuardIdle
    /\ AllocIdle
    /\ SalesIdle
    /\ ReconIdle
    /\ MainIdle

NextAlloc ==
    \/ GenerateUniqueIdHash
    \/ GenerateUniqueIdSequence
    \/ GenerateReadableId
    \/ ResetOne
    \/ ResetAll

SpecAlloc == InitAlloc /\ [][NextAlloc]_vars

\* the hash-derived ids: the two functions that return an MD5 prefix, and
\* the reset after which generate_unique_id hashes the same strings again
InitHashIds ==
    /\ destExists = FALSE
    /\ GuardIdle
    /\ AllocIdle
    /\ SalesIdle
    /\ ReconIdle
    /\ MainIdle

NextHashIds ==
    \/ GenerateUniqueSaleKey
    \/ GenerateUniqueIdHash
    \/ ResetAll

SpecHashIds == InitHashIds /\ [][NextHashIds]_vars

\* ------------------------------------------------------ allocator: claims
SameValue(a, b) == a.kind = b.kind /\ a.num = b.num /\ a.str = b.str

CounterBased(ev) == ev.op = "id" /\ ev.strategy \in {"sequence", "readable"}

\* a reset_id_counters call that removes the counter of entity_type
ResetsCounter(ev, entity_type) ==
    ev.op = "reset" /\ ev.entity \in {entity_type, "*"}

ResetBetween(log, i, j, entity_type) ==
    \E k \in (i + 1)..(j - 1) : ResetsCounter(log[k], entity_type)

\* same flavour of counter-based id: both plain numbers, or both readable
\* ids written with one prefix and one padding
SameFormat(a, b) ==
    /\ a.strategy = b.strategy
    /\ a.prefix = b.prefix
    /\ a.padding = b.padding

\* C4 as stated, read on the counter-based calls of one format: over any
\* sequence of allocator operations (reset_id_counters included), no two
\* id-producing calls for one entity type return the same value
C4_NoTwoCallsSameValue ==
    \A i, j \in 1..Len(issued) :
        ( /\ i < j
          /\ CounterBased(issued[i])
          /\ CounterBased(issued[j])
          /\ issued[i].entity = issued[j].entity
          /\ SameFormat(issued[i], issued[j]) )
        => ~SameValue(issued[i].value, issued[j].value)

\* C4 amended: no two counter-based calls of one format for one entity type
\* return the same value, unless reset_id_counters removed that entity
\* type's counter between them
C4_DistinctBetweenResets ==
    \A i, j \in 1..Len(issued) :
        ( /\ i < j
          /\ CounterBased(issued[i])
          /\ CounterBased(issued[j])
          /\ issued[i].entity = issued[j].entity
          /\ SameFormat(issued[i], issued[j])
          /\ ~ResetBetween(issued, i, j, issued[i].entity) )
        => ~SameValue(issued[i].value, issued[j].value)

\* C4 witness: two readable ids of one format were issued for one entity
\* type with a hash-derived id, and no reset, between them
C4_Witness ==
    \E i, j \in 1..Len(issued) :
        /\ i + 1 < j
        /\ issued[i].strategy = "readable"
        /\ issued[j].strategy = "readable"
        /\ issued[i].entity = issued[j].entity
        /\ SameFormat(issued[i], issued[j])
        /\ issued[i + 1].strategy = "hash"
        /\ issued[i + 1].entity = issued[i].entity
        /\ ~ResetBetween(issued, i, j, issued[i].entity)

\* the event a step appends to the log
NewEvent == issued'[Len(issued')]

\* the sequence numbers handed out for entity_type since its counter was
\* last removed
SinceReset(log, entity_type) ==
    {log[i].sequence : i \in
        {k \in 1..Len(log) :
            /\ log[k].op = "id"
            /\ log[k].entity = entity_type
            /\ ~ResetBetween(log, k, Len(log) + 1, entity_type)}}

AllBefore(log, entity_type) ==
    {log[i].sequence : i \in
        {k \in 1..Len(log) : log[k].op = "id" /\ log[k].entity = entity_type}}

\* C5 as stated: every counter-based call returns a number above all the
\* numbers handed out before for its entity type, and no step lowers the
\* counter of an entity type
C5_AlwaysIncreasing ==
    [][ /\ \A e \in Entities :
              CounterOf(sequence_counters', e) >= CounterOf(sequence_counters, e)
        /\ (issued' # issued /\ CounterBased(NewEvent))
              => /\ NewEvent.value.kind = "int" => NewEvent.value.num = NewEvent.sequence
                 /\ \A n \in AllBefore(issued, NewEvent.entity) :
                        NewEvent.sequence > n ]_vars

\* C5 amended: the same, except across reset_id_counters: a step that is
\* not a reset of the entity type's counter never lowers it, and a
\* counter-based call returns a number above those handed out for its
\* entity type since the last reset of that counter
C5_IncreasingBetweenResets ==
    [][ /\ \A e \in Entities :
              (issued' # issued /\ ~ResetsCounter(NewEvent, e))
                 => CounterOf(sequence_counters', e)
                        >= CounterOf(sequence_counters, e)
        /\ (issued' # issued /\ CounterBased(NewEvent))
              => /\ NewEvent.value.kind = "int" => NewEvent.value.num = NewEvent.sequence
                 /\ NewEvent.value.kind = "str" =>
                        NewEvent.value.str =
                            FormatReadable(NewEvent.prefix, NewEvent.sequence,
                                           NewEvent.padding)
                 /\ \A n \in SinceReset(issued, NewEvent.entity) :
                        NewEvent.sequence > n ]_vars

\* the ids computed from an MD5 prefix
HashDerived(ev) == ev.op = "id" /\ ev.strategy \in {"hash", "sale_key"}

\* the number the hash gave for an event, before any reduction
RawHash(ev) == md5[<<ev.entity, ev.sequence>>]

\* C20: every hash-derived id, from generate_unique_id with
\* use_timestamp=True and from generate_unique_sale_key, fits a signed
\* 64-bit integer: it is at most max_safe_int, a hash at most max_safe_int
\* is returned as it is, and a hash above it is returned modulo
\* max_safe_int
C20_HashIdsFitSigned64 ==
    \A i \in 1..Len(issued) :
        HashDerived(issued[i]) =>
            LET raw == RawHash(issued[i])
                unique_id == issued[i].value.num
            IN  /\ issued[i].value.kind = "int"
                /\ unique_id <= max_safe_int
                /\ raw <= max_safe_int => unique_id = raw
                /\ raw > max_safe_int => unique_id = raw % max_safe_int

\* C20 witness: a sale key whose hash was above max_safe_int was issued,
\* and an id of generate_unique_id with use_timestamp=True
C20_Witness ==
    /\ \E i \in 1..Len(issued) :
          issued[i].strategy = "sale_key" /\ RawHash(issued[i]) > max_safe_int
    /\ \E i \in 1..Len(issued) : issued[i].strategy = "hash"

\* C21: generate_unique_sale_key returns a strictly positive integer for
\* every value the hash prefix can take.  Violated: a prefix of 0 is
\* returned as 0, and a prefix of 2 * max_safe_int is reduced to 0
C21_SaleKeyStrictlyPositive ==
    \A i \in 1..Len(issued) :
        issued[i].strategy = "sale_key" =>
            /\ issued[i].value.kind = "int"
            /\ issued[i].value.num > 0

\* C5 witness: three successive counter-based calls for one entity type,
\* the counter at 3
C5_Witness ==
    \E e \in Entities :
        /\ CounterOf(sequence_counters, e) = 3
        /\ Len(issued) >= 3
        /\ \A k \in (Len(issued) - 2)..Len(issued) :
              CounterBased(issued[k]) /\ issued[k].entity = e

\* ------------------------------------------------------ sales generators
\* Dates are day numbers counted from date(2015, 1, 1) = 0.  An optional
\* date (a field that may be None) is the set of its values: {} is None.

\* historical_start_date = date(2015, 1, 1)
historical_start_date == 0

\* date(2020, 12, 31), the last day with current_date.year <= 2020
LastDayOf2020 == 2191

\* growth_start = 0.5 and growth_end = 1.5, in units of 1 / GrowthScale
GrowthScale == 10
growth_start == 5
growth_end == 15

\* range of random.randint(1, 5), the days to the expected delivery
MinLeadDays == 1
MaxLeadDays == 5

\* requested start dates: around the start of the history and around the
\* end of 2020
StartDates == {-1, 0, LastDayOf2020 - 1, LastDayOf2020, LastDayOf2020 + 1}

Employee(id, hire_date, employment_status, termination_date) ==
    [employee_id |-> id, hire_date |-> hire_date,
     employment_status |-> employment_status,
     termination_date |-> termination_date]

Product(id, created_date, status) ==
    [product_id |-> id, created_date |-> created_date, status |-> status]

\* the employees a pool is drawn from: hired at the start of the history,
\* hired in 2021, terminated at the end of 2020, and without a hire date
EmployeeCatalogue ==
    { Employee(1, {0}, "Active", {}),
      Employee(2, {LastDayOf2020 + 1}, "Active", {}),
      Employee(3, {0}, "Terminated", {LastDayOf2020 - 1}),
      Employee(4, {}, "Active", {}) }

\* the products a pool is drawn from: created at the start of the history,
\* created in 2021 (active, and delisted), and without a creation date
ProductCatalogue ==
    { Product(1, {0}, "Active"),
      Product(2, {LastDayOf2020 + 3}, "Active"),
      Product(3, {LastDayOf2020 + 1}, "Delisted"),
      Product(4, {}, "Active") }

RetailerPools == {{}, {1}}

TargetAmounts == {-1, 0, 1}

DeliveryStatuses == {"Pending", "Processing", "In Transit", "Delivered"}

\* the least of a non-empty set of dates
MinDate(S) == CHOOSE d \in S : \A x \in S : d <= x

MaxDate(S) == CHOOSE d \in S : \A x \in S : d >= x

\* current_date.year <= 2020
Year2020OrEarlier_Always(current_date) == TRUE

Year2020OrEarlier(current_date) == current_date <= LastDayOf2020

\* mutant: the termination date of a terminated employee is not compared
AliveEmployees_IgnoresTermination(employees, current_date) ==
    {e \in employees :
        /\ e.hire_date # {}
        /\ \A h \in e.hire_date : h <= current_date}

\* lines 1264-1268: hired on or before current_date and, when terminated,
\* with a termination date on or after it
AliveEmployees(employees, current_date) ==
    {e \in employees :
        /\ e.hire_date # {}
        /\ \A h \in e.hire_date : h <= current_date
        /\ \/ e.employment_status # "Terminated"
           \/ /\ e.termination_date # {}
              /\ \A t \in e.termination_date : t >= current_date}

\* lines 1264-1272: the alive employees, or every Active employee when none
\* is alive and the date is in 2020 or earlier
available_employees(employees, current_date) ==
    IF AliveEmployees(employees, current_date) = {}
       /\ Year2020OrEarlier(current_date)
    THEN {e \in employees : e.employment_status = "Active"}
    ELSE AliveEmployees(employees, current_date)

\* lines 1277-1280: created on or before current_date
AliveProducts(products, current_date) ==
    {p \in products :
        /\ p.created_date # {}
        /\ \A c \in p.created_date : c <= current_date}

\* lines 1277-1284: the alive products, or every Active product when none is
\* alive and the date is in 2020 or earlier
available_products(products, current_date) ==
    IF AliveProducts(products, current_date) = {}
       /\ Year2020OrEarlier(current_date)
    THEN {p \in products : p.status = "Active"}
    ELSE AliveProducts(products, current_date)

\* lines 1223-1239: the exception the checks before the loop end in, or
\* "none": no retailers; min() of an empty pool; a None date compared with a
\* date inside min() or max()
PreLoopError(a) ==
    IF a.retailers = {} THEN "ValueError"
    ELSE IF a.employees = {} THEN "ValueError"
    ELSE IF Cardinality(a.employees) > 1
            /\ \E e \in a.employees : e.hire_date = {} THEN "TypeError"
    ELSE IF a.products = {} THEN "ValueError"
    ELSE IF Cardinality(a.products) > 1
            /\ \E q \in a.products : q.created_date = {} THEN "TypeError"
    ELSE IF \/ \E e \in a.employees : e.hire_date = {}
            \/ \E q \in a.products : q.created_date = {} THEN "TypeError"
    ELSE "none"

\* lines 1237-1250
ActualStartDate(a) ==
    LET earliest_employee_date ==
            MinDate(UNION {e.hire_date : e \in a.employees})
        earliest_product_date ==
            MinDate(UNION {q.created_date : q \in a.products})
        earliest_available_date ==
            MaxDate({historical_start_date, earliest_employee_date,
                     earliest_product_date})
        actual_start_date == MaxDate({a.start_date, earliest_available_date})
    IN  IF actual_start_date > a.end_date THEN a.start_date
        ELSE actual_start_date

NoRow == [sale_date |-> {}]

\* actual_delivery = expected_delivery if delivery_status == "Delivered"
\* else None
ActualDelivery(delivery_status, expected_delivery) ==
    IF delivery_status = "Delivered" THEN {expected_delivery} ELSE {}

\* the values computed for one sale before it is appended
Row(sale_date, employee, product, retailer, status, expected, actual) ==
    [sale_date |-> {sale_date}, employee |-> employee, product |-> product,
     retailer_id |-> retailer, delivery_status |-> status,
     expected_delivery_date |-> expected, actual_delivery_date |-> actual]

\* line 1227: total_days = (end_date - start_date).days + 1
total_days(a) == a.end_date - a.start_date + 1

\* line 1296: progress = (current_date - start_date).days / total_days, kept
\* as its numerator; the denominator is total_days
progress_days(a, current_date) == current_date - a.start_date

\* progress ** 1.2 in units of 1 / GrowthScale, rounded down: the largest x
\* with (x / GrowthScale) ^ 5 <= (days / total) ^ 6
ProgressPower(days, total) ==
    CHOOSE x \in 0..GrowthScale :
        /\ x^5 * total^6 <= GrowthScale^5 * days^6
        /\ x < GrowthScale => (x + 1)^5 * total^6 > GrowthScale^5 * days^6

\* mutant: the curve runs from growth_end down to growth_start
growth_factor_Decaying(a, current_date) ==
    growth_end - ((growth_end - growth_start)
          * ProgressPower(progress_days(a, current_date), total_days(a)))
          \div GrowthScale

\* line 1299: growth_factor = growth_start + (growth_end - growth_start) *
\* (progress ** 1.2), in units of 1 / GrowthScale
growth_factor(a, current_date) ==
    growth_start + ((growth_end - growth_start)
          * ProgressPower(progress_days(a, current_date), total_days(a)))
          \div GrowthScale

Locals(pc, current_date, current_amount, row, sales, error) ==
    [pc |-> pc, current_date |-> current_date,
     current_amount |-> current_amount, row |-> row, sales |-> sales,
     error |-> error, policies |-> {}, progress_days |-> 0, total_days |-> 0,
     growth_factor |-> 0]

SalesStep ==
    UNCHANGED <<guardVars, allocVars, reconVars, mainVars, args, today>>

\* history: how the dates whose alive filter came out empty were handled so
\* far, "skipped" (lines 1286-1289) or "widened" (lines 1271-1272,
\* 1283-1284, the sales of the date being built from the widened pool)
PolicyOfBuild ==
    IF \/ AliveEmployees(args.employees, gfs.current_date) = {}
       \/ AliveProducts(args.products, gfs.current_date) = {}
    THEN {"widened"}
    ELSE {}

\* generate_fact_sales, lines 1208-1259: up to the start of the date loop
GfsStart ==
    /\ args.fn = "generate_fact_sales"
    /\ gfs.pc = "start"
    /\ gfs' = IF PreLoopError(args) # "none"
              THEN Locals("raised", 0, 0, NoRow, << >>, PreLoopError(args))
              ELSE Locals("loop", ActualStartDate(args), 0, NoRow, << >>, "none")
    /\ SalesStep

\* mutant: the loop does not look at end_date
LoopCondition_IgnoresEndDate ==
    gfs.current_amount * 10 < args.target_amount * 14

\* while current_date <= end_date and current_amount < target_amount * 1.4
LoopCondition ==
    /\ gfs.current_date <= args.end_date
    /\ gfs.current_amount * 10 < args.target_amount * 14

\* mutant: the skipped date is not stepped over
GfsSkipDay_NoAdvance ==
    /\ args.fn = "generate_fact_sales"
    /\ gfs.pc = "loop"
    /\ LoopCondition
    /\ \/ available_employees(args.employees, gfs.current_date) = {}
       \/ available_products(args.products, gfs.current_date) = {}
    /\ gfs' = [gfs EXCEPT !.policies = @ \cup {"skipped"}]
    /\ SalesStep

\* lines 1261-1289: a date without available employees or products is skipped
GfsSkipDay ==
    /\ args.fn = "generate_fact_sales"
    /\ gfs.pc = "loop"
    /\ LoopCondition
    /\ \/ available_employees(args.employees, gfs.current_date) = {}
       \/ available_products(args.products, gfs.current_date) = {}
    /\ gfs' = [gfs EXCEPT !.current_date = @ + 1,
                         !.policies = @ \cup {"skipped"}]
    /\ SalesStep

\* lines 1261-1355: the first sale of a date with available employees and
\* products.  num_sales_today >= 20 and current_amount is below the ceiling,
\* so the values of one sale are drawn and computed; the dictionary for
\* sales.append then calls generate_unique_sale_key() without its five
\* required arguments (id_generation.py:71-72), which raises TypeError before
\* anything is appended.
GfsBuildRow ==
    /\ args.fn = "generate_fact_sales"
    /\ gfs.pc = "loop"
    /\ LoopCondition
    /\ \E employee \in available_employees(args.employees, gfs.current_date),
          product \in available_products(args.products, gfs.current_date),
          retailer \in args.retailers,
          delivery_status \in {"Pending", "In Transit", "Delivered"},
          lead \in MinLeadDays..MaxLeadDays :
          LET expected_delivery == gfs.current_date + lead
              actual_delivery ==
                  ActualDelivery(delivery_status, expected_delivery)
          IN  gfs' = [gfs EXCEPT
                        !.pc = "raised",
                        !.error = "TypeError",
                        !.policies = @ \cup PolicyOfBuild,
                        !.progress_days =
                            progress_days(args, gfs.current_date),
                        !.total_days = total_days(args),
                        !.growth_factor =
                            growth_factor(args, gfs.current_date),
                        !.row = Row(gfs.current_date, employee, product,
                                    retailer, delivery_status,
                                    expected_delivery, actual_delivery)]
    /\ SalesStep

\* lines 1261, 1384-1386: the loop ends; the achievement line divides by
\* target_amount
GfsReturn ==
    /\ args.fn = "generate_fact_sales"
    /\ gfs.pc = "loop"
    /\ ~LoopCondition
    /\ gfs' = IF args.target_amount = 0
              THEN [gfs EXCEPT !.pc = "raised", !.error = "ZeroDivisionError"]
              ELSE [gfs EXCEPT !.pc = "returned"]
    /\ SalesStep

\* generate_daily_sales_with_delivery_updates, lines 1106-1135: no active
\* employee, no active product or no retailer is a ValueError
GdsNoActive ==
    /\ args.fn = "generate_daily_sales_with_delivery_updates"
    /\ gfs.pc = "start"
    /\ \/ {e \in args.employees : e.employment_status = "Active"} = {}
       \/ {q \in args.products : q.status = "Active"} = {}
       \/ args.retailers = {}
    /\ gfs' = Locals("raised", args.start_date, 0, NoRow, << >>, "ValueError")
    /\ SalesStep

\* lines 1140-1185: the first of the day's sales, for start_date; the same
\* call of generate_unique_sale_key() without arguments ends it
GdsBuildRow ==
    /\ args.fn = "generate_daily_sales_with_delivery_updates"
    /\ gfs.pc = "start"
    /\ \E employee \in {e \in args.employees : e.employment_status = "Active"},
          product \in {q \in args.products : q.status = "Active"},
          retailer \in args.retailers,
          delivery_status \in {"Processing", "In Transit", "Delivered"},
          lead \in MinLeadDays..MaxLeadDays :
          LET expected_delivery == args.start_date + lead
              actual_delivery ==
                  ActualDelivery(delivery_status, expected_delivery)
          IN  gfs' = Locals("raised", args.start_date, 0,
                            Row(args.start_date, employee, product, retailer,
                                delivery_status, expected_delivery,
                                actual_delivery),
                            << >>, "TypeError")
    /\ SalesStep

\* a direct call of generate_fact_sales with any pools and range, the day
\* after the range ends (main.py:439-453 passes end_date = yesterday) or
\* well after it
InitGfs ==
    /\ \E employees \in SUBSET EmployeeCatalogue,
          products \in SUBSET ProductCatalogue,
          retailers \in RetailerPools,
          target_amount \in TargetAmounts,
          start_date \in StartDates,
          span \in (-1)..MaxSpan :
          args = [fn |-> "generate_fact_sales", employees |-> employees,
                  products |-> products, retailers |-> retailers,
                  target_amount |-> target_amount, start_date |-> start_date,
                  end_date |-> start_date + span]
    /\ today \in {args.end_date + 1, args.end_date + MaxLeadDays + 1}

\* generate_daily_sales_with_delivery_updates for today (the default
\* start_date) or for yesterday
InitGds ==
    /\ today \in StartDates
    /\ \E employees \in SUBSET EmployeeCatalogue,
          products \in SUBSET ProductCatalogue,
          retailers \in RetailerPools,
          start_date \in {today - 1, today} :
          args = [fn |-> "generate_daily_sales_with_delivery_updates",
                  employees |-> employees, products |-> products,
                  retailers |-> retailers, target_amount |-> 1,
                  start_date |-> start_date, end_date |-> start_date]

InitSales ==
    /\ destExists = FALSE
    /\ GuardIdle
    /\ AllocIdle
    /\ ReconIdle
    /\ MainIdle
    /\ InitGfs \/ InitGds
    /\ gfs = Locals("start", 0, 0, NoRow, << >>, "none")

NextSales ==
    \/ GfsStart
    \/ GfsSkipDay
    \/ GfsBuildRow
    \/ GfsReturn
    \/ GdsNoActive
    \/ GdsBuildRow

SpecSales == InitSales /\ [][NextSales]_vars

\* a call that has begun keeps executing: the interpreter takes the next
\* step of the function whenever there is one
SpecSalesRun == InitSales /\ [][NextSales]_vars /\ WF_vars(NextSales)

\* ----------------------------------------------- sales generators: claims

\* the sale generate_fact_sales computed last, as a set of at most one row
FactSalesRows ==
    IF args.fn = "generate_fact_sales" /\ gfs.row # NoRow THEN {gfs.row}
    ELSE {}

\* the sale either generator computed last
GeneratedRows == IF gfs.row # NoRow THEN {gfs.row} ELSE {}

\* hire_date <= d, and d <= termination_date when terminated
EmployeeWindowContains(e, d) ==
    /\ \E h \in e.hire_date : h <= d
    /\ e.employment_status = "Terminated"
          => \E t \in e.termination_date : d <= t

\* created_date <= d
ProductWindowContains(q, d) == \E c \in q.created_date : c <= d

CreatedAfterEnd(q) == \E c \in q.created_date : c > args.end_date

CeilingReached == gfs.current_amount * 10 >= args.target_amount * 14

\* a date of the loop reached the growth computation
DateProcessed == args.fn = "generate_fact_sales" /\ gfs.row # NoRow

\* C23: for every processed date, progress is within [0, 1], the growth
\* factor is within [growth_start, growth_end], and it is not below the
\* growth factor of any earlier date of the horizon, so the daily
\* sub-target net of the random variation (target_amount / total_days *
\* growth_factor, with the positive target the loop requires) never
\* decreases
C23_GrowthFactorBoundedAndRising ==
    DateProcessed =>
        /\ gfs.total_days > 0
        /\ args.target_amount > 0
        /\ 0 <= gfs.progress_days
        /\ gfs.progress_days <= gfs.total_days
        /\ growth_start <= gfs.growth_factor
        /\ gfs.growth_factor <= growth_end
        /\ \A d \in args.start_date..gfs.current_date :
              growth_factor(args, d) <= gfs.growth_factor

\* C23 witness: a date after the requested start was processed, and its
\* growth factor is above growth_start
C23_Witness ==
    /\ DateProcessed
    /\ gfs.progress_days > 0
    /\ gfs.growth_factor > growth_start

\* C24: every sale generate_fact_sales computes has a sale_date within the
\* requested range [start_date, end_date], whatever the hire dates and
\* creation dates of the pools are
C24_SaleDateWithinRange ==
    \A r \in FactSalesRows :
        \A d \in r.sale_date :
            /\ args.start_date <= d
            /\ d <= args.end_date

\* C24 witness: a sale was computed from a pool that became available only
\* after the requested start, or from a pool widened by the historical
\* fallback
C24_Witness ==
    \E r \in FactSalesRows :
        \/ \A d \in r.sale_date : d > args.start_date
        \/ ~EmployeeWindowContains(r.employee, gfs.current_date)

\* C11: generate_fact_sales emits nothing once the realized amount has
\* reached 1.4 x target_amount, so when it returns with dates remaining and
\* the ceiling reached, the amount is above the ceiling by less than the
\* total_amount of the last transaction it emitted.  Violated: with a negative target the ceiling is
\* reached by the amount 0 before any transaction, and the function returns
\* an empty list.
C11_OvershootBelowLastAmount ==
    (/\ args.fn = "generate_fact_sales"
     /\ gfs.pc = "returned"
     /\ gfs.current_date <= args.end_date
     /\ CeilingReached)
        => /\ gfs.sales # << >>
           /\ gfs.current_amount * 10 - args.target_amount * 14
                 < gfs.sales[Len(gfs.sales)].total_amount * 10

\* the call is over: it returned or raised
GfsDone ==
    /\ args.fn = "generate_fact_sales"
    /\ gfs.pc \in {"returned", "raised"}

\* C29: generate_fact_sales terminates for every finite date range and every
\* pool content: the call returns or raises, and every iteration of the date
\* loop after which the loop goes on, the one that skips a date included,
\* has advanced current_date by one day.
C29_GenerateFactSalesTerminates ==
    /\ (args.fn = "generate_fact_sales") ~> GfsDone
    /\ [][(gfs.pc = "loop" /\ gfs'.pc = "loop")
              => gfs'.current_date = gfs.current_date + 1]_vars

\* a call that skipped every date of a range of several days and returned
C29_Witness ==
    /\ GfsDone
    /\ gfs.pc = "returned"
    /\ "skipped" \in gfs.policies
    /\ args.end_date > args.start_date
    /\ gfs.current_date = args.end_date + 1

\* a positive target for a single day, with exactly one employee and one
\* product, both alive that day, and one retailer
SingleDayScenario ==
    /\ args.fn = "generate_fact_sales"
    /\ args.target_amount > 0
    /\ args.end_date = args.start_date
    /\ Cardinality(args.employees) = 1
    /\ Cardinality(args.products) = 1
    /\ Cardinality(args.retailers) = 1
    /\ \A e \in args.employees : EmployeeWindowContains(e, args.start_date)
    /\ \A q \in args.products : ProductWindowContains(q, args.start_date)

\* C12: in the single-day scenario generate_fact_sales returns at least one
\* transaction, and the sum of total_amount (current_amount) is within
\* [0.5 x target, 1.4 x target].  Violated: the call raises TypeError while
\* building the first transaction.
C12_SingleDayReturnsSales ==
    (SingleDayScenario /\ GfsDone)
        => /\ gfs.pc = "returned"
           /\ Len(gfs.sales) >= 1
           /\ gfs.current_amount * 10 >= args.target_amount * 5
           /\ gfs.current_amount * 10 <= args.target_amount * 14

\* end_date earlier than start_date (total_days <= 0, the zero-length
\* horizon being end_date = start_date - 1), or a negative target
DegenerateInput ==
    \/ args.end_date < args.start_date
    \/ args.target_amount < 0

\* C13: generate_fact_sales called with degenerate input ends in an error, it
\* does not return a result.  (Any exception is accepted as that error.)
\* Violated: with non-empty pools the loop is not entered and the empty list
\* is returned.
C13_DegenerateInputRaises ==
    (DegenerateInput /\ GfsDone) => gfs.pc = "raised"

\* a pool is entirely empty: no date has an alive entity in it
EmptyPool == args.employees = {} \/ args.products = {}

\* C14: a pool without an alive entity raises nothing to the caller of
\* generate_fact_sales; stated here of the entirely empty pool (and a
\* retailer to sell to): the call returns, with no rows.  Violated: min() of
\* the empty pool raises ValueError before the loop.
C14_EmptyPoolIsAbsorbed ==
    (GfsDone /\ EmptyPool /\ args.retailers # {})
        => /\ gfs.pc = "returned"
           /\ gfs.sales = << >>

\* C15: within one run of generate_fact_sales the dates whose alive filter
\* is empty are all handled the same way, all widened or all skipped.
\* Violated: a date before the only employee (terminated since) was hired
\* is skipped because the widened employee pool is still empty, and the next
\* date is built from the widened product pool.
C15_OnePolicyPerRun ==
    args.fn = "generate_fact_sales" /\ gfs.pc # "start"
        => Cardinality(gfs.policies) <= 1

\* ------------------------------------------------ delivery reconciliation
\* bigquery_updates.py: the queries that move delivery statuses forward with
\* the age of a sale, and the two ways main.py runs them on a scheduled run.

\* DATE_DIFF(CURRENT_DATE(), sale_date, DAY) >= 1, >= 2, >= 4
ProcessingAfterDays == 1
InTransitAfterDays == 2
DeliveredAfterDays == 4

\* WHERE sale_date >= DATE_SUB(CURRENT_DATE(), INTERVAL 7 DAY)
UpdateWindowDays == 7

\* the columns of a fact_sales row that the queries read or write
SaleRow(sale_date, delivery_status, expected_delivery, actual_delivery) ==
    [sale_date |-> {sale_date}, delivery_status |-> delivery_status,
     expected_delivery_date |-> expected_delivery,
     actual_delivery_date |-> actual_delivery]

SaleDate(row) == CHOOSE d \in row.sale_date : TRUE

\* DATE_DIFF(CURRENT_DATE(), sale_date, DAY)
DaysSinceSale(row, current_date) == current_date - SaleDate(row)

\* mutant: a Pending sale two days old goes straight to In Transit
NewStatus_SkipsProcessing(delivery_status, days) ==
    IF delivery_status = "Pending" /\ days >= InTransitAfterDays
    THEN "In Transit"
    ELSE IF delivery_status = "Pending" /\ days >= ProcessingAfterDays
    THEN "Processing"
    ELSE IF delivery_status = "Processing" /\ days >= InTransitAfterDays
    THEN "In Transit"
    ELSE IF delivery_status = "In Transit" /\ days >= DeliveredAfterDays
    THEN "Delivered"
    ELSE delivery_status

\* CASE ... END as delivery_status (lines 36-41), as new_status (lines 64-69)
NewStatus(delivery_status, days) ==
    IF delivery_status = "Pending" /\ days >= ProcessingAfterDays
    THEN "Processing"
    ELSE IF delivery_status = "Processing" /\ days >= InTransitAfterDays
    THEN "In Transit"
    ELSE IF delivery_status = "In Transit" /\ days >= DeliveredAfterDays
    THEN "Delivered"
    ELSE delivery_status

\* mutant: the date is set as soon as the sale is shipped
NewActualDeliveryDate_SetWhenShipped(delivery_status, actual, days, current_date) ==
    IF delivery_status = "In Transit" /\ days >= DeliveredAfterDays
    THEN {current_date}
    ELSE IF delivery_status = "Processing" /\ days >= InTransitAfterDays
    THEN {current_date}
    ELSE IF delivery_status = "Delivered" THEN actual
    ELSE {}

\* CASE ... END as actual_delivery_date (lines 43-47), as
\* new_actual_delivery_date (lines 71-75)
NewActualDeliveryDate(delivery_status, actual, days, current_date) ==
    IF delivery_status = "In Transit" /\ days >= DeliveredAfterDays
    THEN {current_date}
    ELSE IF delivery_status = "Delivered" THEN actual
    ELSE {}

\* WHERE sale_date >= DATE_SUB(CURRENT_DATE(), INTERVAL 7 DAY)
InUpdateWindow(row, current_date) ==
    SaleDate(row) >= current_date - UpdateWindowDays

\* one row of the result of create_delivery_update_query
UpdatedRow(row, current_date) ==
    [row EXCEPT
       !.delivery_status =
           NewStatus(row.delivery_status, DaysSinceSale(row, current_date)),
       !.actual_delivery_date =
           NewActualDeliveryDate(row.delivery_status, row.actual_delivery_date,
                                 DaysSinceSale(row, current_date), current_date)]

\* create_delivery_update_query: the rows of the last seven days, each with
\* its status and delivery date recomputed
DeliveryUpdateQuery(table, current_date) ==
    [k \in SaleKeys |->
        IF table[k] # NoSale /\ InUpdateWindow(table[k], current_date)
        THEN UpdatedRow(table[k], current_date)
        ELSE NoSale]

\* lines 85-91: the sale is not delivered and old enough for its next status
NeedsUpdate(row, current_date) ==
    \/ /\ row.delivery_status = "Pending"
       /\ DaysSinceSale(row, current_date) >= ProcessingAfterDays
    \/ /\ row.delivery_status = "Processing"
       /\ DaysSinceSale(row, current_date) >= InTransitAfterDays
    \/ /\ row.delivery_status = "In Transit"
       /\ DaysSinceSale(row, current_date) >= DeliveredAfterDays

\* one record of create_delivery_update_with_new_data_query
UpdateRecord(sale_key, row, current_date) ==
    [sale_key |-> sale_key,
     previous_status |-> row.delivery_status,
     new_status |->
         NewStatus(row.delivery_status, DaysSinceSale(row, current_date)),
     previous_actual_delivery_date |-> row.actual_delivery_date,
     new_actual_delivery_date |->
         NewActualDeliveryDate(row.delivery_status, row.actual_delivery_date,
                               DaysSinceSale(row, current_date), current_date),
     update_date |-> current_date,
     days_since_sale |-> DaysSinceSale(row, current_date)]

\* create_delivery_update_with_new_data_query: a record for every sale of the
\* last seven days that is due for its next status
DeliveryUpdateRecords(table, current_date) ==
    { UpdateRecord(k, table[k], current_date) :
        k \in {j \in SaleKeys : /\ table[j] # NoSale
                                /\ InUpdateWindow(table[j], current_date)
                                /\ NeedsUpdate(table[j], current_date)} }

ReconStep == UNCHANGED <<guardVars, allocVars, mainVars, args, gfs>>

FreeKeys == {k \in SaleKeys : sales_table[k] = NoSale}

\* a row reaches fact_sales under a key not in use; the keys are
\* interchangeable, so the lowest unused one stands for any of them
Load(row) ==
    /\ \E k \in FreeKeys :
          /\ \A j \in FreeKeys : k <= j
          /\ sales_table' = [sales_table EXCEPT ![k] = row]
    /\ UNCHANGED <<today, updates_table>>
    /\ ReconStep

\* a sale as generate_fact_sales computes it, for yesterday (the scheduled
\* run's range, main.py:443-447), with the shortest or the longest delivery
LoadFactSale ==
    \E delivery_status \in {"Pending", "In Transit", "Delivered"},
       lead \in {MinLeadDays, MaxLeadDays} :
       Load(SaleRow(today - 1, delivery_status, today - 1 + lead,
                    ActualDelivery(delivery_status, today - 1 + lead)))

\* a sale as generate_daily_sales_with_delivery_updates computes it, for
\* today, with the shortest or the longest delivery
LoadDailySale ==
    \E delivery_status \in {"Processing", "In Transit", "Delivered"},
       lead \in {MinLeadDays, MaxLeadDays} :
       Load(SaleRow(today, delivery_status, today + lead,
                    ActualDelivery(delivery_status, today + lead)))

\* main.py:491-545: the sample sale of a scheduled run whose generation
\* produced nothing, dated yesterday and delivered the day after
LoadSampleSale == Load(SaleRow(today - 1, "Delivered", today, {today}))

\* create_tables.py:245-261: the row that gives fact_sales its schema
LoadSchemaSample == Load(SaleRow(today, "Pending", today + 1, {}))

\* main.py:578-614 on a scheduled run: method 1 overwrites fact_sales with the
\* result of the update query; when it fails, method 2 appends the update
\* records to delivery_status_updates; when that fails too the run goes on
\* (method 2 is taken to fail once the records would exceed MaxUpdates)
ReconcileScheduled ==
    /\ \E method1_success, method2_success \in BOOLEAN :
          IF method1_success
          THEN /\ sales_table' = DeliveryUpdateQuery(sales_table, today)
               /\ UNCHANGED updates_table
          ELSE IF /\ method2_success
                  /\ Cardinality(updates_table
                         \cup DeliveryUpdateRecords(sales_table, today))
                        <= MaxUpdates
          THEN /\ updates_table' =
                      updates_table \cup DeliveryUpdateRecords(sales_table, today)
               /\ UNCHANGED sales_table
          ELSE UNCHANGED <<sales_table, updates_table>>
    /\ UNCHANGED today
    /\ ReconStep

\* the next day's run
NextDay ==
    /\ today < MaxDay
    /\ today' = today + 1
    /\ UNCHANGED reconVars
    /\ ReconStep

InitRecon ==
    /\ destExists = FALSE
    /\ GuardIdle
    /\ AllocIdle
    /\ SalesIdle
    /\ ReconIdle
    /\ MainIdle

NextRecon ==
    \/ LoadSampleSale
    \/ LoadSchemaSample
    \/ LoadFactSale
    \/ LoadDailySale
    \/ ReconcileScheduled
    \/ NextDay

SpecRecon == InitRecon /\ [][NextRecon]_vars

\* ------------------------------------------------- a pass every day
\* a sale of the history as generate_fact_sales computes it on a manual run
\* (main.py:449-453, from 2015-01-01 to yesterday), dated more than
\* UpdateWindowDays before today
LoadHistorySale ==
    \E delivery_status \in {"Pending", "In Transit", "Delivered"},
       lead \in {MinLeadDays, MaxLeadDays} :
       LET sale_date == today - UpdateWindowDays - 1
       IN  Load(SaleRow(sale_date, delivery_status, sale_date + lead,
                        ActualDelivery(delivery_status, sale_date + lead)))

\* rows are persisted while a week of daily passes is still to come
WeekOfPassesAhead == today + UpdateWindowDays <= MaxDay

LoadBeforePasses ==
    /\ WeekOfPassesAhead
    /\ \/ LoadSampleSale
       \/ LoadSchemaSample
       \/ LoadFactSale
       \/ LoadDailySale
       \/ LoadHistorySale

\* the next day's scheduled run, main.py:578-614, with a reconciliation that
\* succeeds: the overwrite of method 1 or, when that fails, the update
\* records of method 2
DailyPass ==
    /\ today < MaxDay
    /\ today' = today + 1
    /\ \E method1_success \in BOOLEAN :
          IF method1_success
          THEN /\ sales_table' = DeliveryUpdateQuery(sales_table, today + 1)
               /\ UNCHANGED updates_table
          ELSE /\ updates_table' =
                     updates_table
                        \cup DeliveryUpdateRecords(sales_table, today + 1)
               /\ UNCHANGED sales_table
    /\ ReconStep

NextDailyPasses ==
    \/ LoadBeforePasses
    \/ DailyPass

\* the passes do happen, one a day
SpecDailyPasses ==
    InitRecon /\ [][NextDailyPasses]_vars /\ WF_vars(DailyPass)

\* ---------------------------------------- delivery reconciliation: claims

\* the sale keys in use
StoredKeys == {k \in SaleKeys : sales_table[k] # NoSale}

\* C9: in every state of the sales table, at creation of a row and after any
\* number of reconciliation passes, a row has an actual_delivery_date only
\* if its delivery_status is Delivered; the same holds of the new status and
\* new date of every update record.
C9_ActualDateOnlyWhenDelivered ==
    /\ \A k \in StoredKeys :
          sales_table[k].actual_delivery_date # {}
              => sales_table[k].delivery_status = "Delivered"
    /\ \A u \in updates_table :
          u.new_actual_delivery_date # {} => u.new_status = "Delivered"

\* a row that a pass delivered: its actual date is not the expected date it
\* was created with
C9_Witness ==
    \E k \in StoredKeys :
        /\ sales_table[k].delivery_status = "Delivered"
        /\ sales_table[k].actual_delivery_date # {}
        /\ sales_table[k].actual_delivery_date
              # {sales_table[k].expected_delivery_date}

\* one step of the status chain, with the age it requires
GatedStep(from, to, days) ==
    \/ to = from
    \/ from = "Pending" /\ to = "Processing" /\ days >= ProcessingAfterDays
    \/ from = "Processing" /\ to = "In Transit" /\ days >= InTransitAfterDays
    \/ from = "In Transit" /\ to = "Delivered" /\ days >= DeliveredAfterDays

\* C10: a reconciliation pass changes the status of a row it keeps only by
\* one step Pending -> Processing (age >= 1), Processing -> In Transit
\* (age >= 2) or In Transit -> Delivered (age >= 4), and leaves a Delivered
\* row as it is; every update record it appends describes such a step.
C10_OnlyGatedForwardSteps ==
    [][ /\ \A k \in StoredKeys :
              sales_table'[k] # NoSale =>
                  /\ GatedStep(sales_table[k].delivery_status,
                               sales_table'[k].delivery_status,
                               today - SaleDate(sales_table[k]))
                  /\ sales_table[k].delivery_status = "Delivered"
                        => sales_table'[k] = sales_table[k]
        /\ \A u \in updates_table' \ updates_table :
              /\ u.new_status # u.previous_status
              /\ GatedStep(u.previous_status, u.new_status, u.days_since_sale)
      ]_vars

\* an update record of the step Pending -> Processing, next to a row that
\* overwrite passes have taken to Delivered four or more days after its sale
C10_Witness ==
    /\ \E u \in updates_table :
          /\ u.previous_status = "Pending"
          /\ u.new_status = "Processing"
    /\ \E k \in StoredKeys :
          /\ sales_table[k].delivery_status = "Delivered"
          /\ sales_table[k].actual_delivery_date
                # {sales_table[k].expected_delivery_date}
          /\ \A a \in sales_table[k].actual_delivery_date :
                a >= SaleDate(sales_table[k]) + DeliveredAfterDays

\* C27: a reconciliation by table overwrite (a step that adds no sale key)
\* keeps every sale key of the table and changes no column of a row other
\* than delivery_status and actual_delivery_date.  Violated: the overwrite
\* keeps only the rows sold within the last UpdateWindowDays days.
C27_OverwritePreservesSales ==
    [][ (\A k \in SaleKeys : sales_table'[k] # NoSale => sales_table[k] # NoSale)
        => \A k \in StoredKeys :
              /\ sales_table'[k] # NoSale
              /\ sales_table'[k].sale_date = sales_table[k].sale_date
              /\ sales_table'[k].expected_delivery_date
                    = sales_table[k].expected_delivery_date ]_vars

\* C28: with a reconciliation pass succeeding every day, every persisted
\* sales row eventually has delivery_status = Delivered, whatever its sale
\* date and its status at creation.  Violated: a row sold more than
\* UpdateWindowDays ago is never advanced (the overwrite removes it), and
\* the passes of method 2 leave the rows of fact_sales as they are.
C28_EveryRowEventuallyDelivered ==
    \A k \in SaleKeys :
        (sales_table[k] # NoSale)
            ~> (sales_table[k] # NoSale
                   /\ sales_table[k].delivery_status = "Delivered")

\* ------------------------------------- sales generators: status at creation
\* the position of a status in Pending -> Processing -> In Transit ->
\* Delivered
StatusRank(delivery_status) ==
    CASE delivery_status = "Pending" -> 0
      [] delivery_status = "Processing" -> 1
      [] delivery_status = "In Transit" -> 2
      [] delivery_status = "Delivered" -> 3

\* the status the time gates of the update query lead to after that many
\* days, starting from Pending
DueRank(days_since_sale) ==
    IF days_since_sale >= DeliveredAfterDays THEN 3
    ELSE IF days_since_sale >= InTransitAfterDays THEN 2
    ELSE IF days_since_sale >= ProcessingAfterDays THEN 1
    ELSE 0

MainStep == UNCHANGED <<allocVars, salesVars, reconVars>>

GuardUntouched == UNCHANGED guardVars

\* mutant: a failed count query is answered True
table_has_data_TrueOnFailure(rows) == IF rows > 0 THEN {TRUE} ELSE {TRUE, FALSE}

\* table_has_data: the answers it can give for a table holding that many
\* rows; a failed count query is answered False
table_has_data(rows) == IF rows > 0 THEN {TRUE, FALSE} ELSE {FALSE}

\* the fault behind an answer of table_has_data: the count query failed when
\* it says False of a table with rows
CheckFault(rows, has_data) == IF rows > 0 /\ ~has_data THEN {"check"} ELSE {}

\* should_update_dimensions and should_update_facts
should_update(r) == ~r.is_scheduled \/ r.is_last_day

\* the run ends: sys.exit(0), sys.exit(1) from the outer handler, a return,
\* or falling off the end of main()
Ended(r, exit) == [r EXCEPT !.pc = "done", !.exit = exit]

\* each run of main() is a process of its own: the calls of
\* append_df_bq_safe on record are those of the run
NewProcess ==
    /\ prev' = NoCall
    /\ cur' = NoCall
    /\ ncalls' = 0
    /\ cleanRun' = TRUE

\* lines 88-126: the flags, and the early exit of a scheduled run that finds
\* no sales data
MainBegin ==
    /\ run.pc \in {"none", "done"}
    /\ run.n < MaxRuns
    /\ \E is_scheduled, is_last_day \in BOOLEAN :
       \E has_sales \in table_has_data(IF destExists THEN Rows(dest) ELSE 0) :
          LET rows == IF destExists THEN Rows(dest) ELSE 0
              r == [RunRecord("dimensions", run.n + 1, is_scheduled,
                              is_last_day, 1, EmptyDf, "none", {}, "none")
                       EXCEPT !.faults = CheckFault(rows, has_sales)]
          IN  run' = IF is_scheduled /\ ~has_sales THEN Ended(r, "exit0")
                     ELSE IF should_update(r) THEN r
                     ELSE [r EXCEPT !.pc = "load_dimensions"]
    /\ UNCHANGED <<loaded, destExists, dest>>
    /\ NewProcess
    /\ MainStep

\* lines 128-260: one dimension table, generated and appended when
\* table_has_data answers False; append_df_bq re-raises a failed load
MainDimension ==
    /\ run.pc = "dimensions"
    /\ LET t == DimOrder[run.i]
           next == IF run.i < Len(DimOrder)
                   THEN [run EXCEPT !.i = run.i + 1]
                   ELSE [run EXCEPT !.pc = "load_dimensions", !.i = 1]
           Met(r, f) == [r EXCEPT !.faults = @ \cup f]
       IN  \E has_data \in table_has_data(loaded[t]), loadError \in BOOLEAN :
             LET checked == CheckFault(loaded[t], has_data)
             IN  IF has_data
                 THEN run' = next /\ UNCHANGED loaded
                 ELSE IF loadError
                 THEN /\ run' = Ended(Met(run, checked \cup {"load"}), "exit1")
                      /\ UNCHANGED loaded
                 ELSE /\ run' = Met(next, checked)
                      /\ loaded' = [loaded EXCEPT ![t] = loaded[t] + 1]
    /\ GuardUntouched
    /\ MainStep

\* lines 309-420: the dimensions are read back and validated; categories,
\* brands and subcategories are bound only inside the dimension block, so
\* without it the call of validate_relationships raises UnboundLocalError,
\* which the handler re-raises as it does every error other than the
\* read-session permission error
MainLoadDimensions ==
    /\ run.pc = "load_dimensions"
    /\ \E outcome \in {"read", "readsessions.create", "error"}, valid \in BOOLEAN :
         run' = IF outcome = "error"
                THEN Ended([run EXCEPT !.faults = @ \cup {"query"}], "exit1")
                ELSE IF outcome = "readsessions.create"
                THEN [run EXCEPT !.pc = "generate_sales",
                                 !.faults = @ \cup {"readsessions.create"}]
                ELSE IF ~should_update(run) THEN Ended(run, "exit1")
                ELSE IF valid THEN [run EXCEPT !.pc = "generate_sales"]
                ELSE Ended(run, "returned")
    /\ UNCHANGED loaded
    /\ GuardUntouched
    /\ MainStep

\* lines 491-545: the sample rows, sale_id 1000000 + i for i < num_sales
SampleSales(num_sales) == [i \in Ids |-> IF i <= num_sales THEN 1 ELSE 0]

\* lines 436-545: generate_fact_sales is asked for yesterday with
\* DAILY_SALES_AMOUNT on a scheduled run, for the whole history with
\* INITIAL_SALES_AMOUNT otherwise; it returns no row or raises (GfsReturn,
\* GfsBuildRow), so sales is the sample batch, empty when a pool is empty
MainGenerateSales ==
    /\ run.pc = "generate_sales"
    /\ \E num_sales \in 0..Min(MaxBatch, MaxId) :
         run' = [run EXCEPT
                    !.pc = "append_sales",
                    !.sales = SampleSales(num_sales),
                    !.range = IF run.is_scheduled THEN "yesterday"
                              ELSE "2015-01-01..yesterday",
                    !.target = IF run.is_scheduled THEN "DAILY_SALES_AMOUNT"
                               ELSE "INITIAL_SALES_AMOUNT"]
    /\ UNCHANGED loaded
    /\ GuardUntouched
    /\ MainStep

\* lines 547-565: the handler around the sales append logs the exception and
\* the run goes on
AfterAppend(r, outcome) ==
    [r EXCEPT !.pc = "delivery_status", !.append = outcome]

\* lines 547-565: append_df_bq_safe(client, sales_df, FACT_SALES, "sale_id")
MainAppendSales ==
    /\ run.pc = "append_sales"
    /\ \E queryError, loadError, createOk \in BOOLEAN :
         \E existing \in ExistingIdsQuery(dest, IdsOf(run.sales)) :
            /\ queryError => existing = {}
            /\ append_df_bq_safe(run.sales, TRUE, queryError, existing,
                                 loadError, createOk)
    /\ run' = AfterAppend(run, cur'.outcome)
    /\ UNCHANGED loaded

\* lines 567-614: update_delivery_status only reads; on a scheduled run the
\* reconciliation follows inside a handler that swallows every error, and a
\* successful overwrite replaces fact_sales by its rows of the last week
MainDeliveryStatus ==
    /\ run.pc = "delivery_status"
    /\ run' = [run EXCEPT !.pc = "facts", !.i = 1,
                          !.after = run.after \cup {"delivery_status"}]
    /\ IF run.is_scheduled /\ destExists
       THEN \E recent \in SUBSET IdsOf(dest) :
               dest' = [i \in Ids |-> IF i \in recent THEN dest[i] ELSE 0]
       ELSE dest' = dest
    /\ UNCHANGED <<destExists, prev, cur, ncalls, cleanRun, loaded>>
    /\ MainStep

\* lines 616-712: one of the later fact tables. Operating costs are appended
\* when table_has_data answers False, else dropped and regenerated inside a
\* handler that swallows every error; inventory is appended when
\* table_has_data answers False, and a failed load propagates
MainFact ==
    /\ run.pc = "facts"
    /\ LET t == FactOrder[run.i]
           r == [run EXCEPT !.after = run.after \cup {"facts"}]
           next == IF run.i < Len(FactOrder)
                   THEN [r EXCEPT !.i = run.i + 1]
                   ELSE [r EXCEPT !.pc = "summary", !.i = 1]
       IN  IF ~should_update(run)
           THEN /\ run' = [run EXCEPT !.pc = "summary"]
                /\ UNCHANGED loaded
           ELSE \E has_data \in table_has_data(loaded[t]) :
                \E dropError, loadError \in BOOLEAN :
                  LET Met(x, f) == [x EXCEPT !.faults = @ \cup f]
                      checked == CheckFault(loaded[t], has_data)
                  IN  IF ~has_data
                      THEN IF loadError
                           THEN /\ run' = Ended(Met(r, checked \cup {"load"}),
                                                "exit1")
                                /\ UNCHANGED loaded
                           ELSE /\ run' = Met(next, checked)
                                /\ loaded' =
                                       [loaded EXCEPT ![t] = loaded[t] + 1]
                      ELSE IF t # "fact_operating_costs"
                      THEN run' = next /\ UNCHANGED loaded
                      ELSE IF dropError
                      THEN run' = Met(next, {"drop"}) /\ UNCHANGED loaded
                      ELSE IF loadError
                      THEN /\ run' = Met(next, {"load"})
                           /\ loaded' = [loaded EXCEPT ![t] = 0]
                      ELSE /\ run' = next
                           /\ loaded' = [loaded EXCEPT ![t] = 1]
    /\ GuardUntouched
    /\ MainStep

\* lines 714-750: the summary; each count is read inside a handler
MainSummary ==
    /\ run.pc = "summary"
    /\ run' = Ended([run EXCEPT !.after = run.after \cup {"summary"}],
                    "completed")
    /\ UNCHANGED loaded
    /\ GuardUntouched
    /\ MainStep

InitMain ==
    /\ destExists \in BOOLEAN
    /\ GuardIdle
    /\ AllocIdle
    /\ SalesIdle
    /\ ReconIdle
    /\ MainIdle

NextMain ==
    \/ MainBegin
    \/ MainDimension
    \/ MainLoadDimensions
    \/ MainGenerateSales
    \/ MainAppendSales
    \/ MainDeliveryStatus
    \/ MainFact
    \/ MainSummary

SpecMain == InitMain /\ [][NextMain]_vars

\* C19: in main(), when persisting the sales batch fails, no later step
\* executes (no delivery-status update, no further fact table) and the run
\* ends as a failed run.
C19_SalesAppendFailureEndsRun ==
    run.append = "raised" => /\ run.after = {}
                             /\ run.exit \in {"none", "exit1"}

\* C25: a scheduled run that is not on the last day of the month and finds
\* data in fact_sales, with no failure of the warehouse, skips dimension
\* generation, asks generate_fact_sales for yesterday only with
\* DAILY_SALES_AMOUNT and hands the sales to append_df_bq_safe.  Violated:
\* the run ends in the outer handler before sales generation.
C25_DailyRunReachesSalesAppend ==
    ( /\ run.pc = "done"
      /\ run.is_scheduled
      /\ ~run.is_last_day
      /\ run.exit # "exit0"
      /\ run.faults = {} )
    => ( /\ run.range = "yesterday"
         /\ run.target = "DAILY_SALES_AMOUNT"
         /\ run.append # "none" )

\* the rows of fact_sales, 0 when the table is missing
FactSalesCount == IF destExists THEN Rows(dest) ELSE 0

\* C26: a scheduled run that finds no data in fact_sales (the table empty
\* or missing, or the check failing) exits with status 0 at once, leaving
\* every dimension and fact table as it was
C26_ScheduledRunWithoutDataWritesNothing ==
    [][ ( /\ run'.n = run.n + 1
          /\ run'.is_scheduled
          /\ FactSalesCount = 0 \/ "check" \in run'.faults )
        => ( /\ run'.pc = "done"
             /\ run'.exit = "exit0"
             /\ run'.append = "none"
             /\ run'.after = {}
             /\ UNCHANGED <<destExists, dest, loaded>> ) ]_vars

\* C26 witness: a scheduled run ended with status 0 because the check of a
\* fact_sales holding rows failed, with dimensions loaded by an earlier run
C26_Witness ==
    /\ run.exit = "exit0"
    /\ run.is_scheduled
    /\ "check" \in run.faults
    /\ FactSalesCount > 0
    /\ \E t \in LoadedTables : loaded[t] > 0

\* C30: across any sequence of runs of main(), a dimension table that already
\* holds rows is never appended to again.  Violated: table_has_data answers
\* False when its count query fails, and the dimension is then generated and
\* appended a second time.
C30_DimensionLoadedAtMostOnce ==
    [][\A i \in 1..Len(DimOrder) :
          loaded[DimOrder[i]] > 0
              => loaded'[DimOrder[i]] = loaded[DimOrder[i]]]_vars

====
